---- MODULE Spec2Model ----
(***************************************************************************)
(* TaskFlow backend: the project -> board -> task store, the handlers of   *)
(* the HTTP routes that read and write it, the reorder transaction and the *)
(* socket.io fan-out.  Every handler is cut at its awaits: one action per  *)
(* store operation, so that handlers interleave as the event loop lets     *)
(* them.  prisma.$transaction is modelled as a database transaction:       *)
(* private writes, row locks, one atomic commit or a rollback.             *)
(***************************************************************************)
EXTENDS Integers, Sequences, FiniteSets, TLC

VARIABLES
    users,          \* User table: id -> row
    projects,       \* Project table: id -> row
    boards,         \* Board table: id -> row
    tasks,          \* Task table: id -> row (the committed state readers see)
    nextId,         \* ids handed out so far, per table (cuid() never repeats)
    handlers,       \* the requests in flight: slot -> handler state
    sockets,        \* socket.io clients: connection, rooms joined, events received
    nPub,           \* calls of emit so far (numbers the events)
    last,           \* the response the latest step sent, if it sent one
    lastCommitted,  \* history: the Task table as of the latest commit
    hist            \* history: the <<kind, parent>> of the creates that overlapped

vars == <<users, projects, boards, tasks, nextId, handlers, sockets, nPub, last, lastCommitted, hist>>

----------------------------------------------------------------------------
(* Bounds of the model *)

\* tasks ever created
MaxTasks == 2

\* boards ever created
MaxBoards == 2

Handlers == {"h1", "h2"}
Sockets == {"s1", "s2"}

----------------------------------------------------------------------------
(* Values *)

\* `!x` of JavaScript: a missing, null or empty id, name or title
MissingId == 0

\* ids a request may name: a missing one, the ids cuid() can have produced,
\* and one that names no row
TaskIdInputs == MissingId .. MaxTasks + 1

NoRows == [x \in {} |-> 0]

Max(S) == CHOOSE m \in S : \A x \in S : x <= m

\* a delete that closes the gaps: the rows left are numbered anew
RemoveAndRenumber(table, ids) ==
    [x \in DOMAIN table \ ids |->
        [table[x] EXCEPT !.order =
            Cardinality({y \in DOMAIN table \ ids : table[y].order < table[x].order})]]

Remove(table, ids) == [x \in DOMAIN table \ ids |-> table[x]]

\* an insert under a unique index on order: a row whose order is taken is refused
InsertUniqueOrder(table, id, row) ==
    IF \E x \in DOMAIN table : table[x].order = row.order
    THEN table
    ELSE [x \in DOMAIN table \cup {id} |-> IF x = id THEN row ELSE table[x]]

Insert(table, id, row) == [x \in DOMAIN table \cup {id} |-> IF x = id THEN row ELSE table[x]]

\* rows of `later` replace those of `table`
Overlay(table, later) ==
    [x \in DOMAIN table \cup DOMAIN later |-> IF x \in DOMAIN later THEN later[x] ELSE table[x]]

----------------------------------------------------------------------------
(* The store *)

\* where: { boardId } left out: the tasks of all boards
TasksOfAnyBoard(store, b) == DOMAIN store

TasksOf(store, b) == {t \in DOMAIN store : store[t].boardId = b}

BoardsOf(store, p) == {b \in DOMAIN store : store[b].projectId = p}

Orders(store, ids) == {store[x].order : x \in ids}

\* onDelete: Cascade on Task.board: the tasks that go when the boards bs go
CascadeNothing(store, bs) == {}

Cascade(store, bs) == UNION {TasksOf(store, b) : b \in bs}

\* @relation(fields: [..], references: [id]): a row may be written only if the
\* parent it names is a row of the parent table
ForeignKeyUnchecked(parents, id) == TRUE

ForeignKeyHolds(parents, id) == id \in DOMAIN parents

\* lastTask ? lastTask.order + 1 : 0
NextOrderNoIncrement(orders) == IF orders = {} THEN 0 ELSE Max(orders)

NextOrder(orders) == IF orders = {} THEN 0 ELSE Max(orders) + 1

\* findMany({ where: { boardId }, orderBy: { order: 'asc' } }): the rows of the
\* board in ascending order; rows of equal order come in any order
IsSortedAsc(rows) == \A i \in 1 .. Len(rows) - 1 : rows[i].order <= rows[i + 1].order

RECURSIVE Perms(_)
Perms(S) == IF S = {} THEN {<<>>} ELSE UNION {{<<x>> \o p : p \in Perms(S \ {x})} : x \in S}

TaskRow(store, t) == [id |-> t, order |-> store[t].order, boardId |-> store[t].boardId]

Listings(store, ids) ==
    {rows \in {[i \in 1 .. Len(p) |-> TaskRow(store, p[i])] : p \in Perms(ids)} : IsSortedAsc(rows)}

FindManyTasks(store, b) == Listings(store, TasksOf(store, b))

----------------------------------------------------------------------------
(* Handlers *)

Idle ==
    [kind |-> "none", pc |-> "idle", parent |-> 0, isArray |-> TRUE, list |-> <<>>,
     idx |-> 0, ord |-> 0, writes |-> NoRows, result |-> <<>>, wrote |-> FALSE,
     emitted |-> FALSE]

Request(kind, parent) == [Idle EXCEPT !.kind = kind, !.parent = parent]

\* res.status(s).json(body): what the client gets of a finished handler
Response(r, s, body) ==
    [kind |-> r.kind, parent |-> r.parent, isArray |-> r.isArray, list |-> r.list,
     status |-> s, result |-> body, wrote |-> r.wrote, emitted |-> r.emitted]

NoResponse == Response(Idle, 0, <<>>)

\* the response of the latest step has left the server
Quiet == last = NoResponse

Free(h) == Quiet /\ handlers[h].pc = "idle"

InTx(h) == handlers[h].pc = "tx"

\* rows an open transaction has written are locked until it ends
LockedTasks(except) ==
    UNION {DOMAIN handlers[h].writes : h \in {x \in Handlers \ {except} : InTx(x)}}

\* boards an open transaction's writes refer to (the foreign key holds them)
HeldBoards ==
    UNION {{handlers[h].writes[t].boardId : t \in DOMAIN handlers[h].writes} :
              h \in {x \in Handlers : InTx(x)}}

CreatesInFlight(kind) ==
    Cardinality({h \in Handlers : handlers[h].kind = kind /\ handlers[h].pc = "write"})

\* the response is on the wire; the event loop takes the next step
Sent ==
    /\ ~Quiet
    /\ last' = NoResponse
    /\ UNCHANGED <<users, projects, boards, tasks, nextId, handlers, sockets, nPub, lastCommitted>>

----------------------------------------------------------------------------
(* Tasks *)

\* POST /api/boards/:boardId/tasks, up to the answer of findFirst
CreateTaskStart(h, b, title) ==
    /\ Free(h)
    /\ IF title = MissingId
       THEN /\ last' = Response(Request("createTask", b), 400, <<>>)
            /\ UNCHANGED handlers
       ELSE /\ nextId.task + CreatesInFlight("createTask") < MaxTasks
            /\ handlers' = [handlers EXCEPT ![h] =
                   [Request("createTask", b) EXCEPT
                       !.pc = "write", !.result = <<title>>,
                       !.ord = NextOrder(Orders(tasks, TasksOf(tasks, b)))]]
            /\ last' = NoResponse
    /\ UNCHANGED <<users, projects, boards, tasks, nextId, sockets, nPub, lastCommitted>>

\* prisma.task.create and the response; a boardId that names no board breaks
\* the foreign key and the handler answers 500
CreateTaskWrite(h) ==
    /\ Quiet
    /\ handlers[h].kind = "createTask" /\ handlers[h].pc = "write"
    /\ LET r == handlers[h]
           id == nextId.task + 1
       IN IF ForeignKeyHolds(boards, r.parent)
          THEN /\ tasks' = Insert(tasks, id, [title |-> r.result[1], order |-> r.ord, boardId |-> r.parent])
               /\ nextId' = [nextId EXCEPT !.task = id]
               /\ last' = Response([r EXCEPT !.wrote = TRUE], 201, <<id>>)
          ELSE /\ last' = Response(r, 500, <<>>)
               /\ UNCHANGED <<tasks, nextId>>
    /\ handlers' = [handlers EXCEPT ![h] = Idle]
    /\ lastCommitted' = tasks'
    /\ UNCHANGED <<users, projects, boards, sockets, nPub>>

\* PATCH /api/tasks/:taskId: data holds the title only if the body has one
\* (the description, which no other route reads, is left out of the rows)
UpdateTask(t, title) ==
    /\ Quiet
    /\ t \notin LockedTasks("none")
    /\ LET r == Request("updateTask", t)
       IN IF t \in DOMAIN tasks
          THEN /\ tasks' = IF title = MissingId THEN tasks ELSE [tasks EXCEPT ![t].title = title]
               /\ last' = Response([r EXCEPT !.wrote = TRUE], 200, <<t>>)
          ELSE /\ tasks' = tasks
               /\ last' = Response(r, 500, <<>>)
    /\ lastCommitted' = tasks'
    /\ UNCHANGED <<users, projects, boards, nextId, handlers, sockets, nPub>>

\* DELETE /api/tasks/:taskId
DeleteTask(t) ==
    /\ Quiet
    /\ t \notin LockedTasks("none")
    /\ IF t \in DOMAIN tasks
       THEN /\ tasks' = Remove(tasks, {t})
            /\ last' = Response([Request("deleteTask", t) EXCEPT !.wrote = TRUE], 204, <<>>)
       ELSE /\ tasks' = tasks
            /\ last' = Response(Request("deleteTask", t), 500, <<>>)
    /\ lastCommitted' = tasks'
    /\ UNCHANGED <<users, projects, boards, nextId, handlers, sockets, nPub>>

\* GET /api/boards/:boardId/tasks
GetTasks(b) ==
    /\ Quiet
    /\ \E rows \in FindManyTasks(tasks, b) :
          last' = Response(Request("getTasks", b), 200, rows)
    /\ UNCHANGED <<users, projects, boards, tasks, nextId, handlers, sockets, nPub, lastCommitted>>

----------------------------------------------------------------------------
(* Reorder: POST /api/tasks/reorder and PATCH /api/task/reorder *)

ReorderKinds == {"reorderPost", "reorderPatch"}

\* an element of orderedTasks: its id, and the board field it may carry
Elem(i) == [id |-> i, boardId |-> MissingId]

\* if (!boardId || !Array.isArray(orderedTasks)) return 400
ReorderBodyInvalidOrEmpty(b, arr, list) == b = MissingId \/ ~arr \/ list = <<>>

ReorderBodyInvalidNoArrayCheck(b, arr, list) == b = MissingId

ReorderBodyInvalid(b, arr, list) == b = MissingId \/ ~arr

\* if (!task || !task.id) throw, inside orderedTasks.map (the POST route only)
HasMissingId(list) == \E i \in DOMAIN list : list[i].id = MissingId

\* data: { order: index, boardId: boardId }, for the element at (1-based) place i
ReorderDataOneBased(row, i, b) == [row EXCEPT !.order = i, !.boardId = b]

ReorderDataKeepBoard(row, i, b) == [row EXCEPT !.order = i - 1]

ReorderData(row, i, b) == [row EXCEPT !.order = i - 1, !.boardId = b]

\* prisma.$transaction(updatePromises): what the Task table holds after an
\* update of the batch; the writes reach the table at the commit only
TxStoreNoTransaction(store, writes, committing) == Overlay(store, writes)

TxStore(store, writes, committing) == IF committing THEN Overlay(store, writes) ELSE store

ReorderStart(h, kind, b, arr, list) ==
    /\ Free(h)
    /\ kind \in ReorderKinds
    /\ LET r == [Request(kind, b) EXCEPT !.isArray = arr, !.list = list]
       IN CASE ReorderBodyInvalid(b, arr, list) ->
                 /\ last' = Response(r, 400, <<>>)
                 /\ UNCHANGED handlers
            [] ~ReorderBodyInvalid(b, arr, list) /\ kind = "reorderPost" /\ list = <<>> ->
                 /\ last' = Response(r, 200, <<>>)
                 /\ UNCHANGED handlers
            [] ~ReorderBodyInvalid(b, arr, list) /\ kind = "reorderPost" /\ list # <<>>
                 /\ HasMissingId(list) ->
                 /\ last' = Response(r, 500, <<>>)
                 /\ UNCHANGED handlers
            [] OTHER ->
                 /\ handlers' = [handlers EXCEPT ![h] = [r EXCEPT !.pc = "tx"]]
                 /\ last' = NoResponse
    /\ UNCHANGED <<users, projects, boards, tasks, nextId, sockets, nPub, lastCommitted>>

\* one prisma.task.update of the batch, in list order; the last one commits.
\* An update of a row that is missing (P2025), of a missing id, or to a board
\* that does not exist (P2003) fails the transaction: rollback and 500.
ReorderStep(h) ==
    /\ Quiet
    /\ InTx(h)
    /\ handlers[h].kind \in ReorderKinds
    /\ LET r == handlers[h]
           i == r.idx + 1
       IN IF r.list = <<>>
          THEN /\ tasks' = tasks
               /\ handlers' = [handlers EXCEPT ![h] = Idle]
               /\ last' = Response(r, 200, <<>>)
          ELSE LET id == r.list[i].id
                   ok == id # MissingId /\ id \in DOMAIN tasks /\ ForeignKeyHolds(boards, r.parent)
                   base == IF id \in DOMAIN r.writes THEN r.writes[id] ELSE tasks[id]
                   w == Insert(r.writes, id, ReorderData(base, i, r.parent))
                   committing == i = Len(r.list)
               IN /\ id \notin LockedTasks(h)
                  /\ IF ~ok
                     THEN /\ tasks' = tasks
                          /\ handlers' = [handlers EXCEPT ![h] = Idle]
                          /\ last' = Response(r, 500, <<>>)
                     ELSE /\ tasks' = TxStore(tasks, w, committing)
                          /\ IF committing
                             THEN /\ handlers' = [handlers EXCEPT ![h] = Idle]
                                  /\ last' = Response([r EXCEPT !.wrote = TRUE], 200, <<>>)
                             ELSE /\ handlers' = [handlers EXCEPT ![h] = [r EXCEPT !.idx = i, !.writes = w]]
                                  /\ last' = NoResponse
    /\ lastCommitted' = IF last'.status = 200 THEN tasks' ELSE lastCommitted
    /\ UNCHANGED <<users, projects, boards, nextId, sockets, nPub>>

\* the store ends a deadlock: two open transactions that each wait for a row
\* the other has written; one of them is rolled back, its handler catches the
\* error and answers 500
Waits(h) ==
    /\ InTx(h)
    /\ handlers[h].list # <<>>
    /\ handlers[h].list[handlers[h].idx + 1].id \in LockedTasks(h)

ReorderDeadlock(h) ==
    /\ Quiet
    /\ Waits(h)
    /\ \E other \in Handlers \ {h} :
          /\ Waits(other)
          /\ handlers[h].list[handlers[h].idx + 1].id \in DOMAIN handlers[other].writes
          /\ handlers[other].list[handlers[other].idx + 1].id \in DOMAIN handlers[h].writes
    /\ handlers' = [handlers EXCEPT ![h] = Idle]
    /\ last' = Response(handlers[h], 500, <<>>)
    /\ UNCHANGED <<users, projects, boards, tasks, nextId, sockets, nPub, lastCommitted>>

----------------------------------------------------------------------------
(* The task board of one project: tasks are created, read, deleted and     *)
(* reordered on the boards of a project that exists                        *)

\* the task board has two boards; a request may name a third, which does not exist
BoardIdInputs == {MissingId, 1, 2, 3}

\* one request at a time is between two awaits; reads and deletes cut in
BoardHandlers == {"h1"}

ElemInputs == {Elem(i) : i \in TaskIdInputs}

\* orderedTasks of at most two elements
ListInputs == UNION {[1 .. k -> ElemInputs] : k \in {0, 1, 2}}

TitleInputs == {MissingId, 1}

Disconnected == [connected |-> FALSE, rooms |-> {}, inbox |-> <<>>]

NoHistory == {}

Init ==
    /\ users = [u \in {1} |-> [email |-> 1, password |-> 1]]
    /\ projects = [p \in {1} |-> [name |-> 1, authorId |-> 1]]
    /\ boards = [b \in {1, 2} |-> [name |-> 1, order |-> b - 1, projectId |-> 1]]
    /\ tasks = NoRows
    /\ nextId = [user |-> 1, project |-> 1, board |-> 2, task |-> 0]
    /\ handlers = [h \in Handlers |-> Idle]
    /\ sockets = [s \in Sockets |-> Disconnected]
    /\ nPub = 0
    /\ last = NoResponse
    /\ lastCommitted = tasks
    /\ hist = NoHistory

Next ==
    \/ \E h \in BoardHandlers, b \in BoardIdInputs \ {MissingId}, title \in TitleInputs :
          CreateTaskStart(h, b, title) /\ UNCHANGED hist
    \/ \E h \in BoardHandlers : CreateTaskWrite(h) /\ UNCHANGED hist
    \/ \E t \in TaskIdInputs \ {MissingId} : DeleteTask(t) /\ UNCHANGED hist
    \/ \E b \in BoardIdInputs \ {MissingId} : GetTasks(b) /\ UNCHANGED hist
    \/ \E h \in BoardHandlers, kind \in ReorderKinds, b \in BoardIdInputs, list \in ListInputs :
          ReorderStart(h, kind, b, TRUE, list) /\ UNCHANGED hist
    \/ \E h \in BoardHandlers, kind \in ReorderKinds, b \in BoardIdInputs :
          ReorderStart(h, kind, b, FALSE, <<>>) /\ UNCHANGED hist
    \/ \E h \in BoardHandlers : ReorderStep(h) /\ UNCHANGED hist
    \/ Sent /\ UNCHANGED hist

Spec == Init /\ [][Next]_vars

----------------------------------------------------------------------------
(* Properties of the reorder routes *)

IsReorderResponse(r) == r.kind \in ReorderKinds

\* a reorder request that passed the route's first check
IsAcceptedReorder(r) == IsReorderResponse(r) /\ r.parent # MissingId /\ r.isArray

ListIds(list) == {list[i].id : i \in DOMAIN list}

\* the order values of the board's tasks are exactly 0 .. N-1, each used once
Dense(store, b) ==
    /\ Orders(store, TasksOf(store, b)) = 0 .. Cardinality(TasksOf(store, b)) - 1
    /\ \A t, u \in TasksOf(store, b) : store[t].order = store[u].order => t = u

\* C1: after a committed reorder the order values of the tasks of the board
\* the request names are unique and contiguous from zero.
C1_DenseAfterReorder ==
    (IsAcceptedReorder(last) /\ last.status = 200) => Dense(tasks, last.parent)

\* C2: a reorder that names a task that does not exist is answered with a
\* failure, and a reorder answered with a failure has left nothing in the Task
\* table: the table is the one of the latest commit.
C2_ReorderAllOrNothing ==
    IsAcceptedReorder(last) =>
        /\ (\E id \in ListIds(last.list) : id \notin DOMAIN tasks) => last.status = 500
        /\ last.status # 200 => tasks = lastCommitted

\* the example of the specification: t2 first, then an id that names nothing;
\* t2 keeps its order 1 and the answer is 500
C2_Witness ==
    /\ IsAcceptedReorder(last) /\ last.status = 500
    /\ Len(last.list) = 2
    /\ last.list[1].id \in TasksOf(tasks, last.parent)
    /\ last.list[2].id \notin DOMAIN tasks /\ last.list[2].id # MissingId
    /\ tasks[last.list[1].id].order = 1
    /\ Cardinality(TasksOf(tasks, last.parent)) = 2

\* C3: what GET /api/boards/:boardId/tasks returns is a listing of the
\* committed Task table, also while a reorder transaction is open: no row of
\* an unfinished (or failed) batch shows.
C3_ReadersSeeCommitted ==
    last.kind = "getTasks" => last.result \in FindManyTasks(lastCommitted, last.parent)

\* a read of the board while a reorder of it has written a new order for one of
\* its tasks and has not committed
C3_Witness ==
    /\ last.kind = "getTasks" /\ last.result # <<>>
    /\ \E h \in Handlers :
          /\ InTx(h) /\ handlers[h].parent = last.parent
          /\ \E t \in DOMAIN handlers[h].writes :
                /\ handlers[h].writes[t].order # tasks[t].order
                /\ \E i \in DOMAIN last.result : last.result[i].id = t

IsPermutationOf(list, ids) ==
    /\ ListIds(list) = ids
    /\ Len(list) = Cardinality(ids)

\* C4: after the commit of a reorder whose list is a permutation of the tasks
\* of the board, every task's order is its 0-based place in the list and a GET
\* of the board returns the tasks in the order of the list.
C4_PermutationApplied ==
    (IsAcceptedReorder(last) /\ last.status = 200 /\ last.list # <<>>
        /\ IsPermutationOf(last.list, TasksOf(tasks, last.parent))) =>
        /\ \A i \in DOMAIN last.list : tasks[last.list[i].id].order = i - 1
        /\ FindManyTasks(tasks, last.parent) =
              {[i \in DOMAIN last.list |-> TaskRow(tasks, last.list[i].id)]}

\* two tasks of a board swapped
C4_Witness ==
    /\ IsAcceptedReorder(last) /\ last.status = 200 /\ Len(last.list) = 2
    /\ IsPermutationOf(last.list, TasksOf(tasks, last.parent))
    /\ last.list[1].id > last.list[2].id

\* C6: a reorder with an element that has no id is answered 400 and changes
\* no task.
C6_MissingIdIsInvalidInput ==
    (IsAcceptedReorder(last) /\ HasMissingId(last.list)) =>
        /\ last.status = 400
        /\ tasks = lastCommitted

\* C7: a reorder with a boardId and an empty list is answered 200 and the step
\* that answers it leaves the Task table as it was.
C7_EmptyReorderIsNoOp ==
    [][(last' # last /\ IsAcceptedReorder(last') /\ last'.list = <<>>) =>
           (last'.status = 200 /\ tasks' = tasks)]_vars

\* an empty reorder of either route answered while the board has tasks
C7_WitnessPost ==
    /\ last.kind = "reorderPost" /\ IsAcceptedReorder(last) /\ last.list = <<>>
    /\ last.status = 200 /\ TasksOf(tasks, last.parent) # {}

C7_Witness ==
    /\ last.kind = "reorderPatch" /\ IsAcceptedReorder(last) /\ last.list = <<>>
    /\ last.status = 200 /\ TasksOf(tasks, last.parent) # {}

----------------------------------------------------------------------------
(* The fan-out: socket.io rooms *)

\* io.emit(..): the event goes to every connected socket
Everyone == 0

\* io.to(room): the connected sockets that joined the room
RecipientsAllConnected(room) == {s \in Sockets : sockets[s].connected}

Recipients(room) ==
    {s \in Sockets : sockets[s].connected /\ (room = Everyone \/ room \in sockets[s].rooms)}

\* a fan-out that hands the event to each recipient twice
DeliverTwice(ev) ==
    [s \in Sockets |->
        IF s \in Recipients(ev.room)
        THEN [sockets[s] EXCEPT !.inbox = Append(Append(@, ev), ev)]
        ELSE sockets[s]]

Deliver(ev) ==
    [s \in Sockets |->
        IF s \in Recipients(ev.room)
        THEN [sockets[s] EXCEPT !.inbox = Append(@, ev)]
        ELSE sockets[s]]

PublishingKinds == {"createProject", "updateProject", "deleteProject", "createBoard"}

EventName(kind) ==
    CASE kind = "createProject" -> "project: created"
      [] kind = "updateProject" -> "project:updated"
      [] kind = "deleteProject" -> "project:deleted"
      [] kind = "createBoard" -> "board:created"

\* only board:created goes to a room, the room of the board's project
EventRoom(r) == IF r.kind = "createBoard" THEN r.parent ELSE Everyone

SuccessStatus(kind) ==
    CASE kind \in {"createProject", "createBoard"} -> 201
      [] kind = "updateProject" -> 200
      [] kind = "deleteProject" -> 204

\* io.emit / io.to(projectId).emit, then res.status(..): both are inside the
\* try block, after the awaited store call.  An emit that throws reaches the
\* catch, which answers 500.
Emit(h, ok) ==
    /\ Quiet
    /\ handlers[h].pc = "emit"
    /\ handlers[h].kind \in PublishingKinds
    /\ LET r == handlers[h]
           ev == [kind |-> EventName(r.kind), room |-> EventRoom(r), id |-> r.result[1],
                  n |-> nPub + 1]
       IN IF ok
          THEN /\ sockets' = Deliver(ev)
               /\ last' = Response([r EXCEPT !.emitted = TRUE], SuccessStatus(r.kind), r.result)
          ELSE /\ last' = Response(r, 500, <<>>)
               /\ UNCHANGED sockets
    /\ nPub' = nPub + 1
    /\ handlers' = [handlers EXCEPT ![h] = Idle]
    /\ UNCHANGED <<users, projects, boards, tasks, nextId, lastCommitted>>

----------------------------------------------------------------------------
(* Boards *)

\* POST /api/projects/:projectId/boards, up to the answer of findFirst
CreateBoardStart(h, p, name) ==
    /\ Free(h)
    /\ IF name = MissingId
       THEN /\ last' = Response(Request("createBoard", p), 400, <<>>)
            /\ UNCHANGED handlers
       ELSE /\ nextId.board + CreatesInFlight("createBoard") < MaxBoards
            /\ handlers' = [handlers EXCEPT ![h] =
                   [Request("createBoard", p) EXCEPT
                       !.pc = "write", !.result = <<name>>,
                       !.ord = NextOrder(Orders(boards, BoardsOf(boards, p)))]]
            /\ last' = NoResponse
    /\ UNCHANGED <<users, projects, boards, tasks, nextId, sockets, nPub, lastCommitted>>

\* a handler that goes on to its emit call when prisma.board.create has failed
CreateBoardWriteThenEmitAnyway(h) ==
    /\ Quiet
    /\ handlers[h].kind = "createBoard" /\ handlers[h].pc = "write"
    /\ LET r == handlers[h]
           id == nextId.board + 1
       IN IF ForeignKeyHolds(projects, r.parent)
          THEN /\ boards' = Insert(boards, id, [name |-> r.result[1], order |-> r.ord, projectId |-> r.parent])
               /\ nextId' = [nextId EXCEPT !.board = id]
               /\ handlers' = [handlers EXCEPT ![h] =
                      [r EXCEPT !.pc = "emit", !.result = <<id>>, !.wrote = TRUE, !.ord = 0]]
          ELSE /\ handlers' = [handlers EXCEPT ![h] = [r EXCEPT !.pc = "emit", !.ord = 0]]
               /\ UNCHANGED <<boards, nextId>>
    /\ last' = NoResponse
    /\ UNCHANGED <<users, projects, tasks, sockets, nPub, lastCommitted>>

\* prisma.board.create; a projectId that names no project breaks the foreign
\* key and the handler answers 500
CreateBoardWrite(h) ==
    /\ Quiet
    /\ handlers[h].kind = "createBoard" /\ handlers[h].pc = "write"
    /\ LET r == handlers[h]
           id == nextId.board + 1
       IN IF ForeignKeyHolds(projects, r.parent)
          THEN /\ boards' = Insert(boards, id, [name |-> r.result[1], order |-> r.ord, projectId |-> r.parent])
               /\ nextId' = [nextId EXCEPT !.board = id]
               /\ handlers' = [handlers EXCEPT ![h] =
                      [r EXCEPT !.pc = "emit", !.result = <<id>>, !.wrote = TRUE, !.ord = 0]]
               /\ last' = NoResponse
          ELSE /\ handlers' = [handlers EXCEPT ![h] = Idle]
               /\ last' = Response(r, 500, <<>>)
               /\ UNCHANGED <<boards, nextId>>
    /\ UNCHANGED <<users, projects, tasks, sockets, nPub, lastCommitted>>

\* PATCH /api/boards/:boardId
UpdateBoard(b, name) ==
    /\ Quiet
    /\ LET r == Request("updateBoard", b)
       IN CASE name = MissingId ->
                 /\ last' = Response(r, 400, <<>>)
                 /\ UNCHANGED boards
            [] name # MissingId /\ b \notin DOMAIN boards ->
                 /\ last' = Response(r, 500, <<>>)
                 /\ UNCHANGED boards
            [] OTHER ->
                 /\ boards' = [boards EXCEPT ![b].name = name]
                 /\ last' = Response([r EXCEPT !.wrote = TRUE], 200, <<b>>)
    /\ UNCHANGED <<users, projects, tasks, nextId, handlers, sockets, nPub, lastCommitted>>

\* DELETE /api/boards/:boardId; the tasks of the board go with it (onDelete: Cascade)
DeleteBoard(b) ==
    /\ Quiet
    /\ b \notin HeldBoards
    /\ Cascade(tasks, {b}) \cap LockedTasks("none") = {}
    /\ IF b \in DOMAIN boards
       THEN /\ boards' = Remove(boards, {b})
            /\ tasks' = Remove(tasks, Cascade(tasks, {b}))
            /\ last' = Response([Request("deleteBoard", b) EXCEPT !.wrote = TRUE], 204, <<>>)
       ELSE /\ UNCHANGED <<boards, tasks>>
            /\ last' = Response(Request("deleteBoard", b), 500, <<>>)
    /\ lastCommitted' = tasks'
    /\ UNCHANGED <<users, projects, nextId, handlers, sockets, nPub>>

----------------------------------------------------------------------------
(* Creating the children of a parent: boards under a project, tasks under  *)
(* a board, two requests at a time                                         *)

ProjectIdInputs == {1, 2}

BoardParentInputs == 1 .. MaxBoards + 1

NameInputs == {MissingId, 1}

\* another request of the kind, for the same parent, has not been answered yet
Overlaps(h, kind, parent) ==
    \E other \in Handlers \ {h} :
        /\ handlers[other].pc # "idle"
        /\ handlers[other].kind = kind
        /\ handlers[other].parent = parent

NoteStart(h, kind, parent) ==
    IF handlers'[h].pc # "idle" /\ Overlaps(h, kind, parent)
    THEN hist \cup {<<kind, parent>>}
    ELSE hist

InitCreate ==
    /\ users = [u \in {1} |-> [email |-> 1, password |-> 1]]
    /\ projects = [p \in {1} |-> [name |-> 1, authorId |-> 1]]
    /\ boards = NoRows
    /\ tasks = NoRows
    /\ nextId = [user |-> 1, project |-> 1, board |-> 0, task |-> 0]
    /\ handlers = [h \in Handlers |-> Idle]
    /\ sockets = [s \in Sockets |-> Disconnected]
    /\ nPub = 0
    /\ last = NoResponse
    /\ lastCommitted = tasks
    /\ hist = NoHistory

NextCreate ==
    \/ \E h \in Handlers, p \in ProjectIdInputs, name \in NameInputs :
          CreateBoardStart(h, p, name) /\ hist' = NoteStart(h, "createBoard", p)
    \/ \E h \in Handlers : CreateBoardWrite(h) /\ UNCHANGED hist
    \/ \E h \in Handlers, ok \in BOOLEAN : Emit(h, ok) /\ UNCHANGED hist
    \/ \E h \in Handlers, b \in BoardParentInputs, title \in TitleInputs :
          CreateTaskStart(h, b, title) /\ hist' = NoteStart(h, "createTask", b)
    \/ \E h \in Handlers : CreateTaskWrite(h) /\ UNCHANGED hist
    \/ Sent /\ UNCHANGED hist

SpecCreate == InitCreate /\ [][NextCreate]_vars

\* the children of the parent, oldest first (ids are handed out in order),
\* carry the orders 0, 1, 2, ...
InCreationOrder(store, children) ==
    \A c \in children : store[c].order = Cardinality({d \in children : d < c})

Serial(kind, parent) == <<kind, parent>> \notin hist

\* C5: creates issued one after the other under a parent that was empty give
\* the i-th child the order i-1: the orders are exactly 0 .. N-1.
C5_SerialCreatesCountUp ==
    /\ \A p \in ProjectIdInputs :
          Serial("createBoard", p) => InCreationOrder(boards, BoardsOf(boards, p))
    /\ \A b \in BoardParentInputs :
          Serial("createTask", b) => InCreationOrder(tasks, TasksOf(tasks, b))

\* a project with two boards and a board with two tasks, all created serially
C5_Witness ==
    /\ \E p \in ProjectIdInputs :
          Serial("createBoard", p) /\ Cardinality(BoardsOf(boards, p)) = 2
    /\ \E b \in BoardParentInputs :
          Serial("createTask", b) /\ Cardinality(TasksOf(tasks, b)) = 2

----------------------------------------------------------------------------
(* Projects *)

ProjectIds == {1, 2, 3}

\* POST /api/projects, up to the answer of prisma.project.create; an authorId
\* that names no user breaks the foreign key
CreateProject(h, name, authorId) ==
    /\ Free(h)
    /\ LET r == Request("createProject", authorId)
           id == nextId.project + 1
       IN CASE name = MissingId \/ authorId = MissingId ->
                 /\ last' = Response(r, 400, <<>>)
                 /\ UNCHANGED <<projects, nextId, handlers>>
            [] name # MissingId /\ authorId # MissingId /\ ~ForeignKeyHolds(users, authorId) ->
                 /\ last' = Response(r, 500, <<>>)
                 /\ UNCHANGED <<projects, nextId, handlers>>
            [] OTHER ->
                 /\ id \in ProjectIds
                 /\ projects' = Insert(projects, id, [name |-> name, authorId |-> authorId])
                 /\ nextId' = [nextId EXCEPT !.project = id]
                 /\ handlers' = [handlers EXCEPT ![h] =
                        [r EXCEPT !.pc = "emit", !.result = <<id>>, !.wrote = TRUE]]
                 /\ last' = NoResponse
    /\ UNCHANGED <<users, boards, tasks, sockets, nPub, lastCommitted>>

\* PATCH /api/projects/:projectId, up to the answer of prisma.project.update
UpdateProject(h, p, name) ==
    /\ Free(h)
    /\ LET r == Request("updateProject", p)
       IN CASE name = MissingId ->
                 /\ last' = Response(r, 400, <<>>)
                 /\ UNCHANGED <<projects, handlers>>
            [] name # MissingId /\ p \notin DOMAIN projects ->
                 /\ last' = Response(r, 500, <<>>)
                 /\ UNCHANGED <<projects, handlers>>
            [] OTHER ->
                 /\ projects' = [projects EXCEPT ![p].name = name]
                 /\ handlers' = [handlers EXCEPT ![h] =
                        [r EXCEPT !.pc = "emit", !.result = <<p>>, !.wrote = TRUE]]
                 /\ last' = NoResponse
    /\ UNCHANGED <<users, boards, tasks, nextId, sockets, nPub, lastCommitted>>

\* DELETE /api/projects/:projectId, up to the answer of prisma.project.delete;
\* the boards of the project and their tasks go with it (onDelete: Cascade)
DeleteProject(h, p) ==
    /\ Free(h)
    /\ BoardsOf(boards, p) \cap HeldBoards = {}
    /\ LET r == Request("deleteProject", p)
           gone == BoardsOf(boards, p)
           goneTasks == Cascade(tasks, gone)
       IN /\ goneTasks \cap LockedTasks("none") = {}
          /\ IF p \in DOMAIN projects
             THEN /\ projects' = Remove(projects, {p})
                  /\ boards' = Remove(boards, gone)
                  /\ tasks' = Remove(tasks, goneTasks)
                  /\ handlers' = [handlers EXCEPT ![h] =
                         [r EXCEPT !.pc = "emit", !.result = <<p>>, !.wrote = TRUE]]
                  /\ last' = NoResponse
             ELSE /\ last' = Response(r, 500, <<>>)
                  /\ UNCHANGED <<projects, boards, tasks, handlers>>
    /\ lastCommitted' = tasks'
    /\ UNCHANGED <<users, nextId, sockets, nPub>>

----------------------------------------------------------------------------
(* Sockets *)

\* io.on('connection')
Connect(s) ==
    /\ Quiet
    /\ ~sockets[s].connected
    /\ sockets' = [sockets EXCEPT ![s].connected = TRUE]
    /\ last' = NoResponse
    /\ UNCHANGED <<users, projects, boards, tasks, nextId, handlers, nPub, lastCommitted>>

\* socket.on('joinProject', projectId => socket.join(projectId))
JoinProject(s, room) ==
    /\ Quiet
    /\ sockets[s].connected
    /\ room \notin sockets[s].rooms
    /\ sockets' = [sockets EXCEPT ![s].rooms = @ \cup {room}]
    /\ last' = NoResponse
    /\ UNCHANGED <<users, projects, boards, tasks, nextId, handlers, nPub, lastCommitted>>

\* socket.on('disconnect'): the socket has left its rooms
Disconnect(s) ==
    /\ Quiet
    /\ sockets[s].connected
    /\ sockets' = [sockets EXCEPT ![s].connected = FALSE, ![s].rooms = {}]
    /\ last' = NoResponse
    /\ UNCHANGED <<users, projects, boards, tasks, nextId, handlers, nPub, lastCommitted>>

----------------------------------------------------------------------------
(* Two projects and the sockets that watch them: projects are created,     *)
(* renamed and deleted, boards are created, sockets come, join and go      *)

\* calls of emit in a run
MaxEvents == 2

FanoutHandlers == {"h1"}

RoomInputs == {1, 2}

AuthorInputs == {MissingId, 1, 2}

Publishers == {h \in Handlers : handlers[h].pc # "idle" /\ handlers[h].kind \in PublishingKinds}

\* the run has events left for one more publishing request
EventsLeft == nPub + Cardinality(Publishers) < MaxEvents

InitFanout ==
    /\ users = [u \in {1} |-> [email |-> 1, password |-> 1]]
    /\ projects = [p \in {1, 2} |-> [name |-> 1, authorId |-> 1]]
    /\ boards = NoRows
    /\ tasks = NoRows
    /\ nextId = [user |-> 1, project |-> 2, board |-> 0, task |-> 0]
    /\ handlers = [h \in Handlers |-> Idle]
    /\ sockets = [s \in Sockets |-> Disconnected]
    /\ nPub = 0
    /\ last = NoResponse
    /\ lastCommitted = tasks
    /\ hist = NoHistory

NextFanout ==
    \/ \E s \in Sockets : Connect(s) /\ UNCHANGED hist
    \/ \E s \in Sockets, room \in RoomInputs : JoinProject(s, room) /\ UNCHANGED hist
    \/ \E s \in Sockets : Disconnect(s) /\ UNCHANGED hist
    \/ \E h \in FanoutHandlers, name \in NameInputs, a \in AuthorInputs :
          EventsLeft /\ CreateProject(h, name, a) /\ UNCHANGED hist
    \/ \E h \in FanoutHandlers, p \in ProjectIds, name \in {MissingId, 2} :
          EventsLeft /\ UpdateProject(h, p, name) /\ UNCHANGED hist
    \/ \E h \in FanoutHandlers, p \in ProjectIds :
          EventsLeft /\ DeleteProject(h, p) /\ UNCHANGED hist
    \/ \E h \in FanoutHandlers, p \in ProjectIds, name \in NameInputs :
          EventsLeft /\ CreateBoardStart(h, p, name) /\ UNCHANGED hist
    \/ \E h \in FanoutHandlers : CreateBoardWrite(h) /\ UNCHANGED hist
    \/ \E h \in FanoutHandlers, ok \in BOOLEAN : Emit(h, ok) /\ UNCHANGED hist
    \/ Sent /\ UNCHANGED hist

SpecFanout == InitFanout /\ [][NextFanout]_vars

----------------------------------------------------------------------------
(* Properties of the fan-out *)

IsSuccess(r) == r.status \in {200, 201, 204}

\* the mutations of boards and tasks, the entities that have a parent
ScopedMutationKinds ==
    {"createBoard", "deleteBoard", "createTask", "deleteTask", "reorderPost", "reorderPatch"}

\* C8: a handler that has committed a mutation of a board or a task and answers
\* with success has published an event.
C8_ScopedMutationsPublish ==
    (last.kind \in ScopedMutationKinds /\ last.wrote /\ IsSuccess(last)) => last.emitted

NewestEvent(s) == sockets'[s].inbox[Len(sockets'[s].inbox)]

\* the step put exactly one event into the inbox of s
Received(s) ==
    /\ sockets'[s].inbox # sockets[s].inbox
    /\ sockets'[s].inbox = Append(sockets[s].inbox, NewestEvent(s))

\* C9: when a board create is answered 201, every connected socket that has
\* joined the room of the board's project has received its board:created
\* event; and a socket receives an event only while it is connected, and an
\* event sent to a room only if it has joined that room.
C9_ScopeIsolation ==
    [][/\ (last' # last /\ last'.kind = "createBoard" /\ last'.status = 201) =>
              \A s \in Sockets :
                  (sockets[s].connected /\ last'.parent \in sockets[s].rooms) =>
                      /\ Received(s)
                      /\ NewestEvent(s).kind = "board:created"
                      /\ NewestEvent(s).room = last'.parent
                      /\ NewestEvent(s).id = last'.result[1]
       /\ \A s \in Sockets :
              sockets'[s].inbox # sockets[s].inbox =>
                  /\ Received(s)
                  /\ sockets[s].connected
                  /\ NewestEvent(s).room = Everyone \/ NewestEvent(s).room \in sockets[s].rooms
      ]_vars

\* a socket in room 1 only: it has the event of a board of project 1, and the
\* event of the board just created under project 2 has passed it by
C9_Witness ==
    /\ last.kind = "createBoard" /\ last.status = 201 /\ last.parent = 2 /\ last.emitted
    /\ \E s \in Sockets :
          /\ sockets[s].connected /\ sockets[s].rooms = {1}
          /\ Len(sockets[s].inbox) = 1
          /\ sockets[s].inbox[1].kind = "board:created" /\ sockets[s].inbox[1].room = 1
    /\ \E s \in Sockets :
          /\ sockets[s].connected /\ sockets[s].rooms = {2}
          /\ Len(sockets[s].inbox) = 1
          /\ sockets[s].inbox[1].id = last.result[1] /\ sockets[s].inbox[1].room = 2

\* C10: a publishing handler whose store mutation has committed answers with
\* its success status, whatever the emit did.
C10_PublishNeverFailsResponse ==
    (last.kind \in PublishingKinds /\ last.wrote) => last.status = SuccessStatus(last.kind)

----------------------------------------------------------------------------
(* The whole store of one user: the project, its boards and their tasks    *)
(* are created, deleted and reordered; deletes and reads cut in between    *)
(* the awaits of the request in flight                                     *)

StoreHandlers == {"h1"}

\* the boards a request may name: the ids cuid() can have produced; one that
\* is not created yet, or is deleted, names no board
StoreBoardInputs == 1 .. MaxBoards

\* orderedTasks of ids that cuid() can have produced
StoreListInputs == UNION {[1 .. k -> {Elem(i) : i \in 1 .. MaxTasks}] : k \in {1, 2}}

\* history: the delete took children with it
NoteCascade(kind) == IF tasks' # tasks THEN hist \cup {<<kind, 0>>} ELSE hist

InitStore ==
    /\ users = [u \in {1} |-> [email |-> 1, password |-> 1]]
    /\ projects = [p \in {1} |-> [name |-> 1, authorId |-> 1]]
    /\ boards = NoRows
    /\ tasks = NoRows
    /\ nextId = [user |-> 1, project |-> 1, board |-> 0, task |-> 0]
    /\ handlers = [h \in Handlers |-> Idle]
    /\ sockets = [s \in Sockets |-> Disconnected]
    /\ nPub = 0
    /\ last = NoResponse
    /\ lastCommitted = tasks
    /\ hist = NoHistory

NextStore ==
    \/ \E h \in StoreHandlers, p \in ProjectIdInputs :
          CreateBoardStart(h, p, 1) /\ UNCHANGED hist
    \/ \E h \in StoreHandlers : CreateBoardWrite(h) /\ UNCHANGED hist
    \/ \E h \in StoreHandlers : Emit(h, TRUE) /\ UNCHANGED hist
    \/ \E h \in StoreHandlers, b \in StoreBoardInputs :
          CreateTaskStart(h, b, 1) /\ UNCHANGED hist
    \/ \E h \in StoreHandlers : CreateTaskWrite(h) /\ UNCHANGED hist
    \/ \E t \in 1 .. MaxTasks : DeleteTask(t) /\ UNCHANGED hist
    \/ \E b \in StoreBoardInputs : DeleteBoard(b) /\ UNCHANGED hist
    \/ \E h \in StoreHandlers, p \in ProjectIdInputs :
          DeleteProject(h, p) /\ hist' = NoteCascade("deleteProject")
    \/ \E b \in StoreBoardInputs : GetTasks(b) /\ UNCHANGED hist
    \/ \E h \in StoreHandlers, b \in StoreBoardInputs, list \in StoreListInputs :
          ReorderStart(h, "reorderPost", b, TRUE, list) /\ UNCHANGED hist
    \/ \E h \in StoreHandlers : ReorderStep(h) /\ UNCHANGED hist
    \/ Sent /\ UNCHANGED hist

SpecStore == InitStore /\ [][NextStore]_vars

----------------------------------------------------------------------------
(* Properties of the store *)

\* the rows of the table that the step removed
Removed(table, tableAfter) == DOMAIN table \ DOMAIN tableAfter

\* an id that was handed out and names no row now names no row after the step
StaysGone(table, tableAfter, handedOut) ==
    \A x \in 1 .. handedOut : x \notin DOMAIN table => x \notin DOMAIN tableAfter

\* C11: the step that deletes a project leaves none of its boards and none of
\* their tasks in the store, the step that deletes a board leaves none of its
\* tasks; their ids name nothing from then on, and a read of the tasks of a
\* board that is gone returns no row.
C11_DeleteCascades ==
    [][/\ \A p \in Removed(projects, projects') : \A b \in BoardsOf(boards, p) :
              b \notin DOMAIN boards' /\ TasksOf(tasks, b) \cap DOMAIN tasks' = {}
       /\ \A b \in Removed(boards, boards') : TasksOf(tasks, b) \cap DOMAIN tasks' = {}
       /\ StaysGone(boards, boards', nextId.board)
       /\ StaysGone(tasks, tasks', nextId.task)
       /\ (last'.kind = "getTasks" /\ last'.parent \notin DOMAIN boards') => last'.result = <<>>
      ]_vars

\* the project went with its boards and their tasks; the DELETE of the
\* project is answered 204
C11_Witness ==
    /\ last.kind = "deleteProject" /\ last.status = 204
    /\ hist = {<<"deleteProject", 0>>}
    /\ nextId.board = 2 /\ nextId.task = 2
    /\ projects = NoRows /\ boards = NoRows /\ tasks = NoRows

\* C12: every stored board names an existing project and every stored task
\* names an existing board, in every reachable state.
C12_ReferentialIntegrity ==
    /\ \A b \in DOMAIN boards : boards[b].projectId \in DOMAIN projects
    /\ \A t \in DOMAIN tasks : tasks[t].boardId \in DOMAIN boards

\* a reorder of existing tasks into a board that does not exist (any more) has
\* failed, and the tasks are where they were
C12_Witness ==
    /\ last.kind = "reorderPost" /\ last.status = 500
    /\ last.parent \notin DOMAIN boards /\ last.parent <= nextId.board
    /\ Len(last.list) = 2
    /\ ListIds(last.list) \subseteq DOMAIN tasks

----------------------------------------------------------------------------
(* Properties of create *)

CreateKinds == {"createTask", "createBoard"}

\* the order values of the children of the parent the create request names
SiblingOrders(r) ==
    IF r.kind = "createTask"
    THEN Orders(tasks, TasksOf(tasks, r.parent))
    ELSE Orders(boards, BoardsOf(boards, r.parent))

\* the step stored a child of the request's parent, with the order the request
\* had read, under a new id, and the child is there
StoredAsRead(r, table, tableAfter, parentOf) ==
    \E id \in DOMAIN tableAfter \ DOMAIN table :
        /\ DOMAIN tableAfter = DOMAIN table \cup {id}
        /\ tableAfter[id].order = r.ord
        /\ parentOf[id] = r.parent
        /\ \A x \in DOMAIN table : tableAfter[x] = table[x]

BoardIdOf(store) == [t \in DOMAIN store |-> store[t].boardId]

ProjectIdOf(store) == [b \in DOMAIN store |-> store[b].projectId]

\* C13: a create reads the largest order among the siblings and, at a later
\* step, stores its child with that plus one (0 under a parent without
\* children); the store step checks the parent only, so that a child is stored
\* also when a sibling has taken the order value in between.
C13_CreateIsReadThenWrite ==
    [][\A h \in Handlers :
          /\ (handlers[h].pc = "idle" /\ handlers'[h].pc = "write"
                  /\ handlers'[h].kind \in CreateKinds) =>
                 handlers'[h].ord =
                     IF SiblingOrders(handlers'[h]) = {} THEN 0
                     ELSE Max(SiblingOrders(handlers'[h])) + 1
          /\ (handlers[h].pc = "write" /\ handlers'[h].pc # "write"
                  /\ handlers[h].kind = "createTask" /\ handlers[h].parent \in DOMAIN boards) =>
                 StoredAsRead(handlers[h], tasks, tasks', BoardIdOf(tasks'))
          /\ (handlers[h].pc = "write" /\ handlers'[h].pc # "write"
                  /\ handlers[h].kind = "createBoard" /\ handlers[h].parent \in DOMAIN projects) =>
                 StoredAsRead(handlers[h], boards, boards', ProjectIdOf(boards'))
      ]_vars

\* two tasks of one board with the same order, and two boards of one project
\* with the same order: both creates were answered 201
C13_Witness ==
    /\ \E t, u \in DOMAIN tasks :
          t # u /\ tasks[t].boardId = tasks[u].boardId /\ tasks[t].order = tasks[u].order
    /\ \E b, c \in DOMAIN boards :
          b # c /\ boards[b].projectId = boards[c].projectId /\ boards[b].order = boards[c].order
    /\ last.kind = "createTask" /\ last.status = 201

----------------------------------------------------------------------------
(* The requests that carry a body: creates of projects, boards and tasks,  *)
(* the rename of a board and the reorder, with bodies that lack a field    *)

RequestHandlers == {"h1"}

\* orderedTasks of at most one element
RequestListInputs == UNION {[1 .. k -> {Elem(i) : i \in 1 .. MaxTasks}] : k \in {0, 1}}

RenameInputs == {MissingId, 2}

InitRequests ==
    /\ users = [u \in {1} |-> [email |-> 1, password |-> 1]]
    /\ projects = [p \in {1} |-> [name |-> 1, authorId |-> 1]]
    /\ boards = [b \in {1} |-> [name |-> 1, order |-> 0, projectId |-> 1]]
    /\ tasks = NoRows
    /\ nextId = [user |-> 1, project |-> 1, board |-> 1, task |-> 0]
    /\ handlers = [h \in Handlers |-> Idle]
    /\ sockets = [s \in Sockets |-> Disconnected]
    /\ nPub = 0
    /\ last = NoResponse
    /\ lastCommitted = tasks
    /\ hist = NoHistory

NextRequests ==
    \/ \E h \in RequestHandlers, name \in NameInputs, a \in AuthorInputs :
          EventsLeft /\ CreateProject(h, name, a) /\ UNCHANGED hist
    \/ \E h \in RequestHandlers, p \in ProjectIdInputs, name \in NameInputs :
          EventsLeft /\ CreateBoardStart(h, p, name) /\ UNCHANGED hist
    \/ \E h \in RequestHandlers : CreateBoardWrite(h) /\ UNCHANGED hist
    \/ \E h \in RequestHandlers : Emit(h, TRUE) /\ UNCHANGED hist
    \/ \E b \in StoreBoardInputs, name \in RenameInputs : UpdateBoard(b, name) /\ UNCHANGED hist
    \/ \E h \in RequestHandlers, b \in StoreBoardInputs, title \in TitleInputs :
          CreateTaskStart(h, b, title) /\ UNCHANGED hist
    \/ \E h \in RequestHandlers : CreateTaskWrite(h) /\ UNCHANGED hist
    \/ \E h \in RequestHandlers, kind \in ReorderKinds, b \in {MissingId} \cup StoreBoardInputs,
             list \in RequestListInputs :
          ReorderStart(h, kind, b, TRUE, list) /\ UNCHANGED hist
    \/ \E h \in RequestHandlers, kind \in ReorderKinds, b \in {MissingId} \cup StoreBoardInputs :
          ReorderStart(h, kind, b, FALSE, <<>>) /\ UNCHANGED hist
    \/ \E h \in RequestHandlers : ReorderStep(h) /\ UNCHANGED hist
    \/ Sent /\ UNCHANGED hist

SpecRequests == InitRequests /\ [][NextRequests]_vars

\* the step handles a request whose body lacks a required field
LacksField(h) ==
    \/ \E p \in ProjectIdInputs : CreateBoardStart(h, p, MissingId)
    \/ \E b \in StoreBoardInputs : UpdateBoard(b, MissingId)
    \/ \E b \in StoreBoardInputs : CreateTaskStart(h, b, MissingId)
    \/ \E a \in AuthorInputs : CreateProject(h, MissingId, a)
    \/ \E name \in NameInputs : CreateProject(h, name, MissingId)

\* C14: a create of a board or a rename of a board without name, a create of a
\* task without title, a create of a project without name or authorId, and a
\* reorder without boardId or with orderedTasks that is no array are answered
\* 400; the step that answers 400 leaves the tables, the ids, the requests in
\* flight and the sockets as they were and calls no emit.
C14_ValidationPrecedesMutation ==
    [][/\ (\E h \in Handlers : LacksField(h)) => last'.status = 400
       /\ (last' # last /\ IsReorderResponse(last')
              /\ (last'.parent = MissingId \/ ~last'.isArray)) => last'.status = 400
       /\ (last' # last /\ last'.status = 400) =>
              UNCHANGED <<users, projects, boards, tasks, nextId, handlers, sockets, nPub,
                          lastCommitted>>
      ]_vars

\* a reorder whose orderedTasks is no array, answered 400 while the board has a task
C14_Witness ==
    /\ IsReorderResponse(last) /\ ~last.isArray /\ last.parent # MissingId
    /\ last.status = 400
    /\ TasksOf(tasks, last.parent) # {}

----------------------------------------------------------------------------
(* Moving tasks between the two boards of a project: the elements of       *)
(* orderedTasks may carry a board of their own                             *)

MoveHandlers == {"h1"}

MoveBoardInputs == {1, 2}

\* an element of orderedTasks that carries a boardId field
ElemOn(i, b) == [id |-> i, boardId |-> b]

MoveElemInputs == {ElemOn(i, b) : i \in 1 .. MaxTasks, b \in {MissingId} \cup MoveBoardInputs}

MoveListInputs == UNION {[1 .. k -> MoveElemInputs] : k \in {1, 2}}

NextMove ==
    \/ \E h \in MoveHandlers, b \in MoveBoardInputs :
          CreateTaskStart(h, b, 1) /\ UNCHANGED hist
    \/ \E h \in MoveHandlers : CreateTaskWrite(h) /\ UNCHANGED hist
    \/ \E h \in MoveHandlers, kind \in ReorderKinds, b \in MoveBoardInputs, list \in MoveListInputs :
          ReorderStart(h, kind, b, TRUE, list) /\ UNCHANGED hist
    \/ \E h \in MoveHandlers : ReorderStep(h) /\ UNCHANGED hist
    \/ Sent /\ UNCHANGED hist

SpecMove == Init /\ [][NextMove]_vars

\* the step answers a reorder that has committed
CommitsReorder == last' # last /\ IsAcceptedReorder(last') /\ last'.status = 200

\* C15: the commit of a reorder changes the board of a listed task only if the
\* task's element carries a board, and then to that board; a listed task whose
\* element carries none stays on its board.
C15_ReparentOnlyByElement ==
    [][CommitsReorder =>
          \A i \in DOMAIN last'.list :
              LET e == last'.list[i]
              IN e.id \in DOMAIN tasks =>
                     tasks'[e.id].boardId =
                         IF e.boardId = MissingId THEN tasks[e.id].boardId ELSE e.boardId
      ]_vars

\* C20: the commit of a reorder leaves every task the list names on the board
\* the request names, whatever board the task was on and whatever board its
\* element carries; a task the list does not name is left as it was, on its
\* board and with its order.
C20_ListedTasksJoinRequestBoard ==
    [][CommitsReorder =>
          /\ \A id \in ListIds(last'.list) : tasks'[id].boardId = last'.parent
          /\ \A t \in DOMAIN tasks \ ListIds(last'.list) : tasks'[t] = tasks[t]
      ]_vars

\* task 1 was listed with a board field of 1 in a reorder of board 2: it is on
\* board 2 with order 0, and task 2 stays behind on board 1 with its order 1
C20_Witness ==
    /\ IsAcceptedReorder(last) /\ last.status = 200
    /\ last.parent = 2 /\ last.list = <<ElemOn(1, 1)>>
    /\ tasks[1].boardId = 2 /\ tasks[1].order = 0
    /\ 2 \in DOMAIN tasks /\ tasks[2].boardId = 1 /\ tasks[2].order = 1

----------------------------------------------------------------------------
(* Delivery *)

\* the events of the inbox are in the order of their emit calls, none twice
InEmitOrder(inbox) == \A i, j \in DOMAIN inbox : i < j => inbox[i].n < inbox[j].n

\* C16: a socket receives an event at most once, and only in the step of the
\* emit call, when it is connected and in the room of the event; connecting,
\* joining and disconnecting put nothing into an inbox, so an event emitted
\* while a socket was away never reaches it.
C16_AtMostOnceNoReplay ==
    [][\A s \in Sockets :
          /\ InEmitOrder(sockets'[s].inbox)
          /\ sockets'[s].inbox # sockets[s].inbox =>
                 /\ Received(s)
                 /\ nPub' = nPub + 1
                 /\ NewestEvent(s).n = nPub'
                 /\ s \in Recipients(NewestEvent(s).room)
      ]_vars

\* two boards were created in project 1: one socket has both events, the other
\* joined the room after the first emit and has the second only
C16_Witness ==
    \E s, u \in Sockets :
        /\ sockets[s].connected /\ sockets[s].rooms = {1}
        /\ Len(sockets[u].inbox) = 2 /\ Len(sockets[s].inbox) = 1
        /\ \A i \in {1, 2} : sockets[u].inbox[i].room = 1 /\ sockets[u].inbox[i].kind = "board:created"
        /\ sockets[s].inbox[1] = sockets[u].inbox[2]

----------------------------------------------------------------------------
(* Order is counted per board *)

\* the order values on board b
OrdersOn(store, b) == {store[t].order : t \in {u \in DOMAIN store : store[u].boardId = b}}

\* C17: a step changes the order or the board of a stored task only if it
\* commits a reorder that names the task, so that a create and a reorder leave
\* the tasks of the other boards that they do not name as they were; and the
\* order a create stores is counted from the orders on its own board only,
\* whatever orders the other boards hold.
C17_OrderScopedPerBoard ==
    [][/\ \A t \in DOMAIN tasks :
              /\ t \in DOMAIN tasks'
              /\ tasks'[t] # tasks[t] => (CommitsReorder /\ t \in ListIds(last'.list))
       /\ (last' # last /\ last'.kind = "createTask" /\ last'.status = 201) =>
              LET id == last'.result[1]
                  mine == OrdersOn(tasks, last'.parent)
              IN /\ id \notin DOMAIN tasks
                 /\ tasks'[id].boardId = last'.parent
                 /\ tasks'[id].order = IF mine = {} THEN 0 ELSE Max(mine) + 1
      ]_vars

\* the first task of board 2 has got order 0, which the task of board 1 holds
C17_Witness ==
    /\ last.kind = "createTask" /\ last.status = 201
    /\ \E t, u \in DOMAIN tasks :
          /\ tasks[t].boardId = 1 /\ tasks[u].boardId = 2 /\ last.result = <<u>>
          /\ tasks[t].order = 0 /\ tasks[u].order = 0

----------------------------------------------------------------------------
(* Serial histories of creates and deletes: a request is sent when the     *)
(* one before it is answered                                               *)

SerialHandlers == {"h1"}

\* no request is between two awaits
AllAnswered == \A h \in Handlers : handlers[h].pc = "idle"

NextSerial ==
    \/ \E h \in SerialHandlers, p \in ProjectIdInputs :
          CreateBoardStart(h, p, 1) /\ UNCHANGED hist
    \/ \E h \in SerialHandlers : CreateBoardWrite(h) /\ UNCHANGED hist
    \/ \E h \in SerialHandlers : Emit(h, TRUE) /\ UNCHANGED hist
    \/ \E h \in SerialHandlers, b \in StoreBoardInputs :
          CreateTaskStart(h, b, 1) /\ UNCHANGED hist
    \/ \E h \in SerialHandlers : CreateTaskWrite(h) /\ UNCHANGED hist
    \/ \E t \in 1 .. MaxTasks : AllAnswered /\ DeleteTask(t) /\ UNCHANGED hist
    \/ \E b \in StoreBoardInputs : AllAnswered /\ DeleteBoard(b) /\ UNCHANGED hist
    \/ Sent /\ UNCHANGED hist

SpecSerial == InitStore /\ [][NextSerial]_vars

\* no two rows of the set hold the same order
DistinctOrders(store, ids) == \A x, y \in ids : store[x].order = store[y].order => x = y

\* the order a create gives under a parent that holds the orders `mine`
OneAboveMax(mine) == IF mine = {} THEN 0 ELSE Max(mine) + 1

----------------------------------------------------------------------------
(* Two reorders of the same tasks at a time: the tasks of a board, and two *)
(* requests that each list all of them                                     *)

\* the tasks of the board, created one after the other
RaceTasks == 1 .. MaxTasks

\* orderedTasks: the tasks of the board in any order
RaceListInputs == {[i \in DOMAIN p |-> Elem(p[i])] : p \in Perms(RaceTasks)}

InitRace ==
    /\ users = [u \in {1} |-> [email |-> 1, password |-> 1]]
    /\ projects = [p \in {1} |-> [name |-> 1, authorId |-> 1]]
    /\ boards = [b \in {1} |-> [name |-> 1, order |-> 0, projectId |-> 1]]
    /\ tasks = [t \in RaceTasks |-> [title |-> 1, order |-> t - 1, boardId |-> 1]]
    /\ nextId = [user |-> 1, project |-> 1, board |-> 1, task |-> MaxTasks]
    /\ handlers = [h \in Handlers |-> Idle]
    /\ sockets = [s \in Sockets |-> Disconnected]
    /\ nPub = 0
    /\ last = NoResponse
    /\ lastCommitted = tasks
    /\ hist = NoHistory

NextRace ==
    \/ \E h \in Handlers, kind \in ReorderKinds, list \in RaceListInputs :
          ReorderStart(h, kind, 1, TRUE, list) /\ hist' = NoteStart(h, kind, 1)
    \/ \E h \in Handlers : ReorderStep(h) /\ UNCHANGED hist
    \/ \E h \in Handlers : ReorderDeadlock(h) /\ UNCHANGED hist
    \/ Sent /\ UNCHANGED hist

SpecRace == InitRace /\ [][NextRace]_vars

\* every task holds the order of its place in the list
AssignmentOf(list, store) ==
    \A i \in DOMAIN list : list[i].id \in DOMAIN store /\ store[list[i].id].order = i - 1

\* C19: with reorders of the same tasks running at the same time, the Task
\* table changes only in the step that commits one of them, and then it holds
\* the orders of that request's list, all of them; at any time the orders are
\* those of one list, never some places of one and some of another.
C19_LastCommitWins ==
    [][/\ tasks' # tasks => (CommitsReorder /\ AssignmentOf(last'.list, tasks'))
       /\ \E list \in RaceListInputs : AssignmentOf(list, tasks')
       /\ (last' # last /\ IsAcceptedReorder(last') /\ last'.status # 200) => tasks' = tasks
      ]_vars

\* two POST reorders overlapped; both are answered, and the table holds the
\* orders of the list that committed last, task 2 first
C19_Witness ==
    /\ <<"reorderPost", 1>> \in hist
    /\ AllAnswered
    /\ IsAcceptedReorder(last) /\ last.status = 200
    /\ last.list[1].id = 2
    /\ AssignmentOf(last.list, tasks)

----------------------------------------------------------------------------
(* Events and commits *)

\* the step called emit
Emits == nPub' # nPub

\* C21: a publishing handler whose store call failed answers 500 and calls no
\* emit; every call of emit, and so every event that reaches a socket, is made
\* by a handler whose store call has committed, and carries the id of the row
\* that call wrote.
C21_NoEventWithoutCommit ==
    [][/\ (last' # last /\ last'.kind \in PublishingKinds /\ ~last'.wrote) =>
              /\ last'.status \in {400, 500}
              /\ ~Emits
              /\ sockets' = sockets
       /\ (Emits \/ \E s \in Sockets : sockets'[s].inbox # sockets[s].inbox) =>
              \E h \in Handlers :
                  /\ handlers[h].pc = "emit" /\ handlers'[h].pc = "idle"
                  /\ handlers[h].wrote
                  /\ \A s \in Sockets :
                         sockets'[s].inbox # sockets[s].inbox =>
                             /\ Received(s)
                             /\ NewestEvent(s).id = handlers[h].result[1]
                             /\ NewestEvent(s).kind = EventName(handlers[h].kind)
      ]_vars

\* a board create under a project that is gone, answered 500: a socket that is
\* connected and in the room of that project has received nothing
C21_Witness ==
    /\ last.kind = "createBoard" /\ last.status = 500 /\ ~last.wrote
    /\ \E s \in Sockets :
          sockets[s].connected /\ last.parent \in sockets[s].rooms /\ sockets[s].inbox = <<>>

----------------------------------------------------------------------------
(* Editing: boards and tasks are created, renamed and deleted              *)

EditHandlers == {"h1"}

NextEdit ==
    \/ \E h \in EditHandlers, p \in ProjectIdInputs :
          CreateBoardStart(h, p, 1) /\ UNCHANGED hist
    \/ \E h \in EditHandlers : CreateBoardWrite(h) /\ UNCHANGED hist
    \/ \E h \in EditHandlers : Emit(h, TRUE) /\ UNCHANGED hist
    \/ \E h \in EditHandlers, b \in StoreBoardInputs :
          CreateTaskStart(h, b, 1) /\ UNCHANGED hist
    \/ \E h \in EditHandlers : CreateTaskWrite(h) /\ UNCHANGED hist
    \/ \E b \in StoreBoardInputs, name \in RenameInputs : UpdateBoard(b, name) /\ UNCHANGED hist
    \/ \E t \in 1 .. MaxTasks, title \in RenameInputs : UpdateTask(t, title) /\ UNCHANGED hist
    \/ \E t \in 1 .. MaxTasks : DeleteTask(t) /\ UNCHANGED hist
    \/ \E b \in StoreBoardInputs : DeleteBoard(b) /\ UNCHANGED hist
    \/ Sent /\ UNCHANGED hist

SpecEdit == InitStore /\ [][NextEdit]_vars

\* the rows that are in the table before and after the step keep order and parent
KeepsPlace(table, tableAfter, parentOf, parentOfAfter) ==
    \A x \in DOMAIN table \cap DOMAIN tableAfter :
        tableAfter[x].order = table[x].order /\ parentOfAfter[x] = parentOf[x]

\* the step answers the request of the kind with the status
Answers(kind, status) == last' # last /\ last'.kind = kind /\ last'.status = status

\* C22: a rename of a board or a task leaves every order and every parent as
\* it was and removes no row; a delete of a task removes that row only, a
\* delete of a board that board and its tasks only, and every row that stays
\* keeps its order and its parent.
C22_EditsNeverRenumber ==
    [][/\ KeepsPlace(tasks, tasks', BoardIdOf(tasks), BoardIdOf(tasks'))
       /\ KeepsPlace(boards, boards', ProjectIdOf(boards), ProjectIdOf(boards'))
       /\ (Answers("updateBoard", 200) \/ Answers("updateTask", 200)) =>
              DOMAIN boards' = DOMAIN boards /\ DOMAIN tasks' = DOMAIN tasks
       /\ Answers("deleteTask", 204) =>
              DOMAIN tasks' = DOMAIN tasks \ {last'.parent} /\ boards' = boards
       /\ Answers("deleteBoard", 204) =>
              /\ DOMAIN boards' = DOMAIN boards \ {last'.parent}
              /\ DOMAIN tasks' = {t \in DOMAIN tasks : tasks[t].boardId # last'.parent}
      ]_vars

\* the first of two tasks of a board is deleted: the second, renamed before,
\* keeps its order 1; and the second board of the project, renamed, keeps its
\* order 1
C22_Witness ==
    /\ last.kind = "deleteTask" /\ last.status = 204
    /\ \E t \in DOMAIN tasks :
          tasks[t].title = 2 /\ tasks[t].order = 1 /\ TasksOf(tasks, tasks[t].boardId) = {t}
    /\ \E b \in DOMAIN boards : boards[b].name = 2 /\ boards[b].order = 1

----------------------------------------------------------------------------
(* Accounts: POST /api/register and POST /api/login *)

\* users ever registered
MaxUsers == 2

\* bcrypt.hash(password, 10): the stored value is not the password, and
\* bcrypt.compare(password, stored) tells whether it was made from it
Hash(password) == password + 10

Compare(password, stored) == stored = Hash(password)

\* prisma.user.findUnique({ where: { email } })
UsersWithEmail(email) == {u \in DOMAIN users : users[u].email = email}

RegistrationsInFlight ==
    Cardinality({h \in Handlers : handlers[h].kind = "register" /\ handlers[h].pc # "idle"})

\* POST /api/register, up to the answer of findUnique
RegisterStart(h, email, password, name) ==
    /\ Free(h)
    /\ LET r == [Request("register", email) EXCEPT !.result = <<password>>]
       IN CASE email = MissingId \/ password = MissingId \/ name = MissingId ->
                 /\ last' = Response(r, 400, <<>>)
                 /\ UNCHANGED handlers
            [] email # MissingId /\ password # MissingId /\ name # MissingId
                 /\ UsersWithEmail(email) # {} ->
                 /\ last' = Response(r, 409, <<>>)
                 /\ UNCHANGED handlers
            [] OTHER ->
                 /\ nextId.user + RegistrationsInFlight < MaxUsers
                 /\ handlers' = [handlers EXCEPT ![h] = [r EXCEPT !.pc = "hash"]]
                 /\ last' = NoResponse
    /\ UNCHANGED <<users, projects, boards, tasks, nextId, sockets, nPub, lastCommitted>>

\* await bcrypt.hash(password, 10)
RegisterHash(h) ==
    /\ Quiet
    /\ handlers[h].kind = "register" /\ handlers[h].pc = "hash"
    /\ handlers' = [handlers EXCEPT ![h] =
           [@ EXCEPT !.pc = "write", !.result = <<Hash(@[1])>>]]
    /\ last' = NoResponse
    /\ UNCHANGED <<users, projects, boards, tasks, nextId, sockets, nPub, lastCommitted>>

\* prisma.user.create: email is @unique, an insert of an email that a stored
\* user holds is refused by the store (P2002) and the catch answers
RegisterWrite(h) ==
    /\ Quiet
    /\ handlers[h].kind = "register" /\ handlers[h].pc = "write"
    /\ LET r == handlers[h]
           id == nextId.user + 1
       IN IF UsersWithEmail(r.parent) = {}
          THEN /\ users' = Insert(users, id, [email |-> r.parent, password |-> r.result[1]])
               /\ nextId' = [nextId EXCEPT !.user = id]
               /\ last' = Response([r EXCEPT !.wrote = TRUE], 201, <<id>>)
          ELSE /\ last' = Response(r, 500, <<>>)
               /\ UNCHANGED <<users, nextId>>
    /\ handlers' = [handlers EXCEPT ![h] = Idle]
    /\ UNCHANGED <<projects, boards, tasks, sockets, nPub, lastCommitted>>

\* the two ways a login with both fields fails
LoginFailureCauses == {"unknownEmail", "wrongPassword"}

\* an answer that tells the causes apart
LoginFailureTelling(cause) ==
    IF cause = "unknownEmail"
    THEN [status |-> 404, message |-> "User not found"]
    ELSE [status |-> 401, message |-> "Invalid credentials"]

\* res.status(401).json({ message: 'Invalid credentials' }), at both returns
LoginFailure(cause) == [status |-> 401, message |-> "Invalid credentials"]

\* POST /api/login, up to the answer of findUnique
LoginStart(h, email, password) ==
    /\ Free(h)
    /\ LET r == [Request("login", email) EXCEPT !.result = <<password>>]
           found == UsersWithEmail(email)
       IN CASE email = MissingId \/ password = MissingId ->
                 /\ last' = Response(r, 400, <<>>)
                 /\ UNCHANGED handlers
            [] email # MissingId /\ password # MissingId /\ found = {} ->
                 /\ last' = Response(r, LoginFailure("unknownEmail").status,
                                     <<LoginFailure("unknownEmail").message>>)
                 /\ UNCHANGED handlers
            [] OTHER ->
                 /\ \E u \in found :
                       handlers' = [handlers EXCEPT ![h] =
                           [r EXCEPT !.pc = "compare", !.idx = u,
                                     !.result = <<password, users[u].password>>]]
                 /\ last' = NoResponse
    /\ UNCHANGED <<users, projects, boards, tasks, nextId, sockets, nPub, lastCommitted>>

\* await bcrypt.compare(password, user.password) and the answer
LoginCompare(h) ==
    /\ Quiet
    /\ handlers[h].kind = "login" /\ handlers[h].pc = "compare"
    /\ LET r == handlers[h]
       IN IF Compare(r.result[1], r.result[2])
          THEN last' = Response(r, 200, <<r.idx>>)
          ELSE last' = Response(r, LoginFailure("wrongPassword").status,
                                <<LoginFailure("wrongPassword").message>>)
    /\ handlers' = [handlers EXCEPT ![h] = Idle]
    /\ UNCHANGED <<users, projects, boards, tasks, nextId, sockets, nPub, lastCommitted>>

----------------------------------------------------------------------------
(* The accounts under concurrent requests *)

EmailInputs == {MissingId, 1, 2}

PasswordInputs == {MissingId, 1, 2}

UserNameInputs == {MissingId, 1}

LoginHandlers == {"h1"}

\* a login that failed for `cause` is remembered with what the client got
NoteLoginFailure(cause) ==
    IF last'.kind = "login" /\ last'.status \notin {0, 200, 400}
    THEN hist \cup {<<cause, last'.status, last'.result>>}
    ELSE hist

InitAuth ==
    /\ users = NoRows
    /\ projects = NoRows
    /\ boards = NoRows
    /\ tasks = NoRows
    /\ nextId = [user |-> 0, project |-> 0, board |-> 0, task |-> 0]
    /\ handlers = [h \in Handlers |-> Idle]
    /\ sockets = [s \in Sockets |-> Disconnected]
    /\ nPub = 0
    /\ last = NoResponse
    /\ lastCommitted = NoRows
    /\ hist = NoHistory

NextAuth ==
    \/ \E h \in Handlers, email \in EmailInputs, password \in PasswordInputs,
          name \in UserNameInputs :
          RegisterStart(h, email, password, name) /\ UNCHANGED hist
    \/ \E h \in Handlers : RegisterHash(h) /\ UNCHANGED hist
    \/ \E h \in Handlers : RegisterWrite(h) /\ UNCHANGED hist
    \/ \E h \in LoginHandlers, email \in EmailInputs, password \in PasswordInputs :
          LoginStart(h, email, password) /\ hist' = NoteLoginFailure("unknownEmail")
    \/ \E h \in LoginHandlers :
          LoginCompare(h) /\ hist' = NoteLoginFailure("wrongPassword")
    \/ Sent /\ UNCHANGED hist

SpecAuth == InitAuth /\ [][NextAuth]_vars

\* C23: a registration whose email a stored user holds when its insert is
\* attempted is answered 409 and never 500, and no two stored users share an
\* email.
InsertMeetsHeldEmail ==
    \E h \in Handlers :
        /\ RegisterWrite(h)
        /\ UsersWithEmail(handlers[h].parent) # {}

UniqueEmails ==
    \A u, v \in DOMAIN users : users[u].email = users[v].email => u = v

C23_DuplicateEmailIs409 ==
    [][(InsertMeetsHeldEmail => last'.status = 409) /\ UniqueEmails']_vars

\* C24: a login that fails because the email is unknown and one that fails
\* because the password is wrong get the same status and the same body.
C24_LoginFailuresAlike ==
    \A x, y \in hist : x[2] = y[2] /\ x[3] = y[3]

C24_Witness ==
    /\ {x[1] : x \in hist} = LoginFailureCauses
    /\ last.kind = "login" /\ last.status = 401

----------------------------------------------------------------------------
(* The authenticateToken middleware *)

\* length of an Authorization header, in pieces
MaxHeader == 3

\* a header value is a string of pieces: a space, or a run of other characters
\* ("good" is a token jwt.verify accepts, "bad" one it rejects)
Space == " "

Pieces == {Space, "Bearer", "good", "bad"}

\* a JavaScript value that may be undefined: <<>>, or <<v>> for the value v
Undefined == <<>>

Defined(v) == <<v>>

\* String.prototype.split(' '): the runs between the spaces, empty ones too
RECURSIVE Split(_)
Split(s) ==
    IF s = <<>> THEN <<(<<>>)>>
    ELSE LET rest == Split(Tail(s))
         IN IF Head(s) = Space
            THEN <<(<<>>)>> \o rest
            ELSE <<(<<Head(s)>> \o rest[1])>> \o Tail(rest)

\* authHeader && authHeader.split(' ')[1]: undefined and '' are falsy and are
\* the value of the expression themselves
Token(authHeader) ==
    IF authHeader = Undefined \/ authHeader = Defined(<<>>) THEN authHeader
    ELSE LET parts == Split(authHeader[1])
         IN IF Len(parts) >= 2 THEN Defined(parts[2]) ELSE Undefined

\* jwt.verify(token, secret, callback): err is set unless the token was signed
\* with the secret
Verifies(token, secret) == token = <<"good">>

SendStatus(s) == [call |-> "sendStatus", status |-> s]

CallNext == [call |-> "next", status |-> 0]

\* the calls the middleware makes on res and next, in order
authenticateToken(authHeader, secret) ==
    LET token == Token(authHeader)
    IN IF token = Undefined THEN <<SendStatus(401)>>
       ELSE IF secret = MissingId THEN <<SendStatus(500)>>
       ELSE IF ~Verifies(token[1], secret) THEN <<SendStatus(403)>>
       ELSE <<CallNext>>

\* a request through the middleware; the answer carries the calls made
Authenticate(h, authHeader, secret) ==
    /\ Free(h)
    /\ LET r == [Request("authenticate", secret) EXCEPT !.list = authHeader]
           calls == authenticateToken(authHeader, secret)
       IN last' = Response(r, calls[Len(calls)].status, calls)
    /\ UNCHANGED <<users, projects, boards, tasks, nextId, handlers, sockets, nPub,
                   lastCommitted>>

RECURSIVE Strings(_)
Strings(n) ==
    IF n = 0 THEN {<<>>}
    ELSE LET shorter == Strings(n - 1)
         IN shorter \cup {<<p>> \o s : p \in Pieces, s \in {x \in shorter : Len(x) = n - 1}}

\* req.headers['authorization']
AuthorizationInputs == {Undefined} \cup {Defined(v) : v \in Strings(MaxHeader)}

\* process.env.NEXTAUTH_SECRET
SecretInputs == {MissingId, 1}

GuardHandlers == {"h1"}

NextGuard ==
    \/ \E h \in GuardHandlers, authHeader \in AuthorizationInputs, secret \in SecretInputs :
          Authenticate(h, authHeader, secret) /\ UNCHANGED hist
    \/ Sent /\ UNCHANGED hist

SpecGuard == InitAuth /\ [][NextGuard]_vars

\* the request carries a token: the header is there and its second word is
\* not empty
CarriesToken(authHeader) ==
    /\ authHeader # Undefined
    /\ Len(Split(authHeader[1])) >= 2
    /\ Split(authHeader[1])[2] # <<>>

\* C25: authenticateToken calls next only when a token is present, the secret
\* is configured and the token verifies; otherwise it answers exactly once,
\* 401 when the token is missing, 500 when the secret is unset, 403 when
\* verification fails, and never calls next.
C25_GuardAnswers ==
    last.kind = "authenticate" =>
        LET present == CarriesToken(last.list)
            passes == /\ present
                      /\ last.parent # MissingId
                      /\ Verifies(Split(last.list[1])[2], last.parent)
        IN IF passes THEN last.result = <<CallNext>>
           ELSE last.result =
                    <<SendStatus(IF ~present THEN 401
                                 ELSE IF last.parent = MissingId THEN 500 ELSE 403)>>

====
